---- MODULE Spec2Model ----
(***************************************************************************)
(* Land lot optimization (lot-planner.py): a CP-SAT model that places 5    *)
(* residential buildings, 2 parking lots and 1 park on a lot around a      *)
(* floodable area and a utility pole, maximising the building area, then   *)
(* solves it, prints the yield and renders the rectangles.                 *)
(*                                                                         *)
(* The script is a straight-line pipeline; its state is the CpModel being  *)
(* built (the set of registered constraints and the objective), the        *)
(* solver's response (status and assignment), and what was printed and     *)
(* drawn.  The solver is external: Solve is modelled by its contract (any  *)
(* assignment of the bounded candidate grid that satisfies every           *)
(* registered constraint; OPTIMAL only for one of best objective value).   *)
(***************************************************************************)
EXTENDS Integers, Sequences, FiniteSets, TLC

VARIABLES
    cfg,          \* the constants of this run (lot size, obstacle literals)
    pc,           \* position in the script
    constraints,  \* constraints registered with the CpModel so far
    objective,    \* "none", or the direction given to model.Maximize
    optimum,      \* the best objective value of the model as declared
    status,       \* solver.Solve's return value ("NONE" before the call)
    solution,     \* the solver's assignment, NoSolution when it holds none
    warned,       \* "Model neither optimal nor feasible" was printed
    reads,        \* variables whose value solver.Value has returned
    printed,      \* the yield printed, NotPrinted before
    patches       \* the entity rectangles added to the plot, NoPatches before

vars == <<cfg, pc, constraints, objective, optimum, status, solution, warned,
          reads, printed, patches>>

----------------------------------------------------------------------------
(* Module-level constants of the script.                                   *)

SIZE_X == 60
SIZE_Y == 40
NUM_BUILDINGS == 5
NUM_PARKING_LOTS == 2

FLOODABLE_X_START == 10
FLOODABLE_X_SIZE == 7
FLOODABLE_X_END == FLOODABLE_X_START + FLOODABLE_X_SIZE
FLOODABLE_Y_START == 20
FLOODABLE_Y_SIZE == 12
FLOODABLE_Y_END == FLOODABLE_Y_START + FLOODABLE_Y_SIZE

UTILITY_X_START == 40
UTILITY_X_SIZE == 5
UTILITY_X_END == UTILITY_X_START + UTILITY_X_SIZE
UTILITY_Y_START == 30
UTILITY_Y_SIZE == 5
UTILITY_Y_END == UTILITY_Y_START + UTILITY_Y_SIZE

(* The factor of the parking constraint (line 138: "* 10").                *)
PARKING_FACTOR == 10

----------------------------------------------------------------------------
(* Configurations.  "A" is the script as written.  "B" and "C" are the     *)
(* script with the constants edited as the scenarios of the specification  *)
(* describe: B shrinks the lot to 5x5 and requires every building to have  *)
(* positive area, C puts the utility pole on the floodable area.  The      *)
(* relaxed configurations are the same scripts with the symmetry-breaking  *)
(* lines (84-86 and 92-93) deleted.                                        *)

ReferenceConfig ==
    [name |-> "A", size_x |-> SIZE_X, size_y |-> SIZE_Y,
     utility_x_start |-> UTILITY_X_START, utility_x_size |-> UTILITY_X_SIZE,
     utility_y_start |-> UTILITY_Y_START, utility_y_size |-> UTILITY_Y_SIZE,
     positive_buildings |-> FALSE, symmetry_breaking |-> TRUE]

ShrunkLotConfig ==
    [ReferenceConfig EXCEPT !.name = "B", !.size_x = 5, !.size_y = 5,
                            !.positive_buildings = TRUE]

PoleOnFloodConfig ==
    [ReferenceConfig EXCEPT !.name = "C",
                            !.utility_x_start = FLOODABLE_X_START,
                            !.utility_x_size = FLOODABLE_X_SIZE,
                            !.utility_y_start = FLOODABLE_Y_START,
                            !.utility_y_size = FLOODABLE_Y_SIZE]

Configs == {ReferenceConfig, ShrunkLotConfig, PoleOnFloodConfig}

Relaxed(c) == [c EXCEPT !.symmetry_breaking = FALSE]
Ordered(c) == [c EXCEPT !.symmetry_breaking = TRUE]
RelaxedConfigs == {Relaxed(c) : c \in Configs}

----------------------------------------------------------------------------
(* Entities and boxes.  A box is what entity_2d returns, without the       *)
(* interval handles: per axis Start, Size and End, and the Area.           *)

Buildings == {<<"building", i>> : i \in 0..(NUM_BUILDINGS - 1)}
ParkingLots == {<<"parking_lots", i>> : i \in 0..(NUM_PARKING_LOTS - 1)}
Park == <<"park", 0>>
Floodable == <<"floodable", 0>>
Utility == <<"utility", 0>>
Entities == Buildings \cup ParkingLots \cup {Park}

(* The order in which the script creates the entities.                     *)
EntityOrder ==
    [i \in 1..NUM_BUILDINGS |-> <<"building", i - 1>>]
    \o [i \in 1..NUM_PARKING_LOTS |-> <<"parking_lots", i - 1>>]
    \o <<Park>>

Box(xs, xz, xe, ys, yz, ye, ar) ==
    [X |-> [Start |-> xs, Size |-> xz, End |-> xe],
     Y |-> [Start |-> ys, Size |-> yz, End |-> ye],
     Area |-> ar]

(* NewIntervalVar(start, size, end): the interval constraint.              *)
NewIntervalVar(start, size, end) == start + size = end

(* entity_2d: the domains of the seven variables, the two intervals and    *)
(* the multiplication equality.                                            *)
entity_2d(c, b) ==
    /\ b.X.Start \in 0..c.size_x
    /\ b.X.Size \in 0..c.size_x
    /\ b.X.End \in 0..c.size_x
    /\ b.Y.Start \in 0..c.size_y
    /\ b.Y.Size \in 0..c.size_y
    /\ b.Y.End \in 0..c.size_y
    /\ NewIntervalVar(b.X.Start, b.X.Size, b.X.End)
    /\ NewIntervalVar(b.Y.Start, b.Y.Size, b.Y.End)
    /\ b.Area \in 0..(c.size_x * c.size_y)
    /\ b.Area = b.X.Size * b.Y.Size

(* The two fixed zones: intervals over literals.                           *)
floodable_interval ==
    Box(FLOODABLE_X_START, FLOODABLE_X_SIZE, FLOODABLE_X_END,
        FLOODABLE_Y_START, FLOODABLE_Y_SIZE, FLOODABLE_Y_END,
        FLOODABLE_X_SIZE * FLOODABLE_Y_SIZE)

utility_interval(c) ==
    Box(c.utility_x_start, c.utility_x_size,
        c.utility_x_start + c.utility_x_size,
        c.utility_y_start, c.utility_y_size,
        c.utility_y_start + c.utility_y_size,
        c.utility_x_size * c.utility_y_size)

LargestBuilding == <<"largest_building", 0>>
LotYield == <<"lot_yield", 0>>

----------------------------------------------------------------------------
(* Constraints, as the CpModel holds them: a kind and the variables it is  *)
(* over.  An assignment gives every entity a box and the two auxiliary     *)
(* variables a value.                                                      *)

Constraint(kind, a, b) == [kind |-> kind, a |-> a, b |-> b]

BoxOf(c, boxes, id) ==
    IF id = Floodable THEN floodable_interval
    ELSE IF id = Utility THEN utility_interval(c)
    ELSE boxes[id]

RECURSIVE SumAreas(_, _)
SumAreas(boxes, ids) ==
    IF ids = {} THEN 0
    ELSE LET e == CHOOSE x \in ids : TRUE
         IN  boxes[e].Area + SumAreas(boxes, ids \ {e})

MaxArea(boxes, ids) ==
    CHOOSE m \in {boxes[e].Area : e \in ids} :
        \A e \in ids : boxes[e].Area <= m

(* AddNoOverlap2D over the boxes `ids`: no two of them overlap.  Two boxes *)
(* overlap unless, on one axis, one ends at or before the other's start;   *)
(* a box of size zero strictly inside another box still overlaps it.       *)
(* Faulty variant: an interval of size zero overlaps nothing.             *)
IntervalsOverlapLenient(i, j) ==
    /\ i.Size > 0
    /\ j.Size > 0
    /\ i.Start < j.End
    /\ j.Start < i.End

IntervalsOverlap(i, j) == i.Start < j.End /\ j.Start < i.End

(* Faulty variant: the Y intervals are dropped from the call.             *)
BoxesOverlapOnX(p, q) == IntervalsOverlap(p.X, q.X)

BoxesOverlap(p, q) == IntervalsOverlap(p.X, q.X) /\ IntervalsOverlap(p.Y, q.Y)

NoOverlapAgainst(c, boxes, b, others) ==
    \A j \in others : ~BoxesOverlap(b, BoxOf(c, boxes, j))

AddNoOverlap2D(c, boxes, ids) ==
    \A i \in ids : NoOverlapAgainst(c, boxes, BoxOf(c, boxes, i), ids \ {i})

(* Faulty variant: a strict comparison.                                   *)
AreaAtLeastStrict(hi, lo) == hi > lo

(* model.Add(x["Area"] >= y["Area"]), over the two areas.                 *)
AreaAtLeast(hi, lo) == hi >= lo

(* Faulty variant: the comparison turned around.                          *)
ParkingRatioReversed(boxes, lots, blds) ==
    SumAreas(boxes, lots) * PARKING_FACTOR <= SumAreas(boxes, blds)

(* Line 138: Sum(parking areas) * 10 >= Sum(building areas).               *)
ParkingRatio(boxes, lots, blds) ==
    SumAreas(boxes, lots) * PARKING_FACTOR >= SumAreas(boxes, blds)

(* Faulty variant: AddMinEquality in place of AddMaxEquality.             *)
AddMinEquality(target, boxes, blds) ==
    target = CHOOSE m \in {boxes[e].Area : e \in blds} :
                 \A e \in blds : m <= boxes[e].Area

(* Line 143: AddMaxEquality(largest_building, building areas).             *)
AddMaxEquality(target, boxes, blds) == target = MaxArea(boxes, blds)

(* Line 144: park["Area"] >= largest_building.                             *)
ParkSize(boxes, park, largest) == boxes[park].Area >= largest

(* Faulty variant: the sum starts at building 1.                          *)
YieldEqualitySkippingFirst(target, boxes, blds) ==
    target = SumAreas(boxes, blds \ {<<"building", 0>>})

(* Line 148: lot_yield == Sum(building areas).                             *)
YieldEquality(target, boxes, blds) == target = SumAreas(boxes, blds)

(* Whether assignment `asg` satisfies constraint `con`.                    *)
Holds(c, con, asg) ==
    CASE con.kind = "NoOverlap2D" -> AddNoOverlap2D(c, asg.box, con.a)
      [] con.kind = "AreaAtLeast" ->
            \A hi \in con.a : \A lo \in con.b :
                AreaAtLeast(asg.box[hi].Area, asg.box[lo].Area)
      [] con.kind = "ParkingRatio" -> ParkingRatio(asg.box, con.a, con.b)
      [] con.kind = "MaxEquality" ->
            AddMaxEquality(asg.largest_building, asg.box, con.b)
      [] con.kind = "ParkSize" ->
            \A p \in con.a : ParkSize(asg.box, p, asg.largest_building)
      [] con.kind = "YieldEquality" ->
            YieldEquality(asg.lot_yield, asg.box, con.b)
      [] con.kind = "Positive" -> \A e \in con.a : asg.box[e].Area >= 1
      [] con.kind = "Entity" -> \A e \in con.a : entity_2d(c, asg.box[e])

(* Whether `asg` is a solution of the model holding `cons`: in the         *)
(* domains of the auxiliary variables and satisfying every constraint.     *)
Feasible(c, cons, asg) ==
    /\ DOMAIN asg.box = Entities
    /\ asg.largest_building \in 0..(c.size_x * c.size_y)
    /\ asg.lot_yield \in 0..(c.size_x * c.size_y)
    /\ \A con \in cons : Holds(c, con, asg)

----------------------------------------------------------------------------
(* The constraints each part of the script registers.                      *)

(* Lines 54-75: what entity_2d registers for one entity.                  *)
EntityConstraints(ents) == {Constraint("Entity", {e}, {}) : e \in ents}

(* Lines 84-86 and 92-93: symmetry breaking.                               *)
SymmetryBreaking(kind, n) ==
    {Constraint("AreaAtLeast", {<<kind, i>>}, {<<kind, i + 1>>}) :
        i \in 0..(n - 2)}

(* Faulty variant: the floodable area left out of the call.               *)
PlacedNoOverlapWithoutFloodable ==
    {Constraint("NoOverlap2D", Buildings \cup ParkingLots \cup {Park}, {})}

(* Faulty variant: the utility pole added to the call.                    *)
PlacedNoOverlapWithUtility ==
    {Constraint("NoOverlap2D",
                Buildings \cup ParkingLots \cup {Park}
                \cup {Floodable, Utility}, {})}

(* Lines 118-126: buildings, parking lots, park and floodable area.        *)
PlacedNoOverlap ==
    {Constraint("NoOverlap2D",
                Buildings \cup ParkingLots \cup {Park} \cup {Floodable}, {})}

(* Faulty variant: the call for the park (lines 133-135) is missing.      *)
UtilityNoOverlapBuildingsOnly ==
    {Constraint("NoOverlap2D", {b, Utility}, {}) : b \in Buildings}

(* Lines 128-135: the utility pole against each building, and the park.    *)
UtilityNoOverlap ==
    {Constraint("NoOverlap2D", {b, Utility}, {}) : b \in Buildings}
    \cup {Constraint("NoOverlap2D", {Park, Utility}, {})}

(* Lines 137-139.                                                          *)
ParkingRatioConstraint ==
    {Constraint("ParkingRatio", ParkingLots, Buildings)}

(* Lines 141-144.                                                          *)
ParkSizeConstraints ==
    {Constraint("MaxEquality", {LargestBuilding}, Buildings),
     Constraint("ParkSize", {Park}, {LargestBuilding})}

(* Lines 146-148.                                                          *)
YieldConstraint == {Constraint("YieldEquality", {LotYield}, Buildings)}

(* The symmetry-breaking constraints the configuration keeps.             *)
Ordering(c, kind, n) ==
    IF c.symmetry_breaking THEN SymmetryBreaking(kind, n) ELSE {}

(* Scenario B's edit: every building has positive area.                    *)
PositiveBuildings(c) ==
    IF c.positive_buildings
    THEN {Constraint("Positive", {b}, {}) : b \in Buildings}
    ELSE {}

----------------------------------------------------------------------------
(* The candidate grid of the search: every entity is a shape put at an     *)
(* anchor, kept when it lies in the variables' domains.  A configuration   *)
(* uses the first anchors of its list, as many as AnchorCount says.        *)

MaxAnchors == 5

AnchorList(c) ==
    IF c.name = "B"
    THEN << <<0, 0>>, <<0, 1>>, <<0, 2>>, <<0, 3>>, <<0, 4>>, <<1, 1>>,
            <<1, 2>>, <<5, 0>> >>
    ELSE << <<0, 0>>, <<12, 22>>, <<20, 0>>, <<42, 25>>, <<40, 0>>,
            <<20, 15>> >>

AnchorCount(c) == IF c.name = "B" THEN MaxAnchors + 2 ELSE MaxAnchors

Anchors(c) ==
    {AnchorList(c)[i] :
        i \in 1..AnchorCount(c) \cap 1..Len(AnchorList(c))}

Shapes(c) ==
    IF c.name = "B" THEN { <<0, 5>>, <<1, 1>> }
    ELSE { <<55, 0>>, <<10, 10>>, <<20, 15>> }

MakeBox(an, sh) ==
    Box(an[1], sh[1], an[1] + sh[1], an[2], sh[2], an[2] + sh[2],
        sh[1] * sh[2])

Candidates(c) == {MakeBox(an, sh) : an \in Anchors(c), sh \in Shapes(c)}

(* Propagation when entity e is given box b, `boxes` being the boxes       *)
(* assigned before: the constraints over boxes that involve e and are      *)
(* decided once e has a box.                                               *)
Propagate(c, cons, boxes, e, b) ==
    \A con \in cons :
        CASE con.kind = "NoOverlap2D" ->
                e \in con.a =>
                    NoOverlapAgainst(c, boxes, b,
                        {j \in con.a \ {e} :
                            j \in DOMAIN boxes \/ j \in {Floodable, Utility}})
          [] con.kind = "AreaAtLeast" ->
                /\ e \in con.a =>
                      \A lo \in con.b \cap DOMAIN boxes :
                          AreaAtLeast(b.Area, boxes[lo].Area)
                /\ e \in con.b =>
                      \A hi \in con.a \cap DOMAIN boxes :
                          AreaAtLeast(boxes[hi].Area, b.Area)
          [] con.kind = "Positive" -> e \in con.a => b.Area >= 1
          [] con.kind = "Entity" -> e \in con.a => entity_2d(c, b)
          [] OTHER -> TRUE

(* The fixed boxes of a constraint against each other: no variable is      *)
(* involved, the constraint holds or fails whatever the search assigns.    *)
FixedConsistent(c, cons) ==
    \A con \in cons :
        con.kind = "NoOverlap2D" =>
            AddNoOverlap2D(c, <<>>, con.a \cap {Floodable, Utility})

(* The values the two auxiliary variables can take, given the boxes: the   *)
(* area of a building for largest_building, a sum of building areas for    *)
(* lot_yield.                                                              *)
Completions(c, cons, boxes) ==
    {asg \in {[box |-> boxes, largest_building |-> lb, lot_yield |-> ly] :
                lb \in {boxes[b].Area : b \in Buildings},
                ly \in {SumAreas(boxes, S) :
                          S \in {Buildings, Buildings \ {<<"building", 0>>}}}} :
        /\ asg.largest_building \in 0..(c.size_x * c.size_y)
        /\ asg.lot_yield \in 0..(c.size_x * c.size_y)
        /\ FixedConsistent(c, cons)
        /\ \A con \in cons :
              con.kind \in {"ParkingRatio", "MaxEquality", "ParkSize",
                            "YieldEquality"} => Holds(c, con, asg)}

SetMax(S) == CHOOSE m \in S : \A x \in S : x <= m

NoBound == -1

(* The best objective value among the solutions that extend `boxes` from   *)
(* entity k on, NoBound when there is none.                                *)
RECURSIVE BestFrom(_, _, _, _, _)
BestFrom(c, cons, cands, k, boxes) ==
    IF k > Len(EntityOrder)
    THEN SetMax({NoBound} \cup
                {asg.lot_yield : asg \in Completions(c, cons, boxes)})
    ELSE LET e == EntityOrder[k]
         IN  SetMax({NoBound} \cup
                    {BestFrom(c, cons, cands, k + 1, boxes @@ (e :> b)) :
                       b \in {b \in cands : Propagate(c, cons, boxes, e, b)}})

(* model.Maximize(lot_yield): the best value of the objective over the     *)
(* candidate grid.                                                         *)
BestObjective(c, cons) == BestFrom(c, cons, Candidates(c), 1, <<>>)

(* The statuses Solve may return with assignment `asg`: OPTIMAL only when  *)
(* no solution has a better objective value; with the time limit of line   *)
(* 153 it may return any solution as FEASIBLE.                             *)
StatusesOf(asg, best) ==
    IF asg.lot_yield = best THEN {"OPTIMAL", "FEASIBLE"} ELSE {"FEASIBLE"}

(* The statuses Solve may return without an assignment.                    *)
StatusesWithout(best) ==
    IF best = NoBound THEN {"INFEASIBLE", "UNKNOWN"} ELSE {"UNKNOWN"}

AllConstraints(c) ==
    EntityConstraints(Entities) \cup PositiveBuildings(c)
    \cup Ordering(c, "building", NUM_BUILDINGS)
    \cup Ordering(c, "parking_lots", NUM_PARKING_LOTS)
    \cup PlacedNoOverlap \cup UtilityNoOverlap \cup ParkingRatioConstraint
    \cup ParkSizeConstraints \cup YieldConstraint

----------------------------------------------------------------------------
(* The script.                                                             *)

NoSolution == [box |-> <<>>, largest_building |-> NoBound, lot_yield |-> NoBound]
NotPrinted == -1
NoPatches == <<>>
Solved == {"OPTIMAL", "FEASIBLE"}

InitWith(configs) ==
    /\ cfg \in configs
    /\ pc = "buildings"
    /\ constraints = {}
    /\ objective = "none"
    /\ optimum = NoBound
    /\ status = "NONE"
    /\ solution = NoSolution
    /\ warned = FALSE
    /\ reads = {}
    /\ printed = NotPrinted
    /\ patches = NoPatches

Init == InitWith(Configs)

(* The script without its symmetry-breaking lines.                         *)
InitRelaxed == InitWith(RelaxedConfigs)

Register(cons, next) ==
    /\ constraints' = constraints \cup cons
    /\ pc' = next
    /\ UNCHANGED <<cfg, objective, optimum, status, solution, warned, reads,
                   printed, patches>>

(* Lines 80-86.                                                            *)
BuildBuildings ==
    /\ pc = "buildings"
    /\ Register(EntityConstraints(Buildings) \cup PositiveBuildings(cfg)
                \cup Ordering(cfg, "building", NUM_BUILDINGS),
                "parking_lots")

(* Lines 88-93.                                                            *)
BuildParkingLots ==
    /\ pc = "parking_lots"
    /\ Register(EntityConstraints(ParkingLots)
                \cup Ordering(cfg, "parking_lots", NUM_PARKING_LOTS),
                "park")

(* Lines 95-116: the park, and the intervals of the two fixed zones.       *)
BuildPark ==
    /\ pc = "park"
    /\ Register(EntityConstraints({Park}), "no_overlap")

(* Lines 118-126.                                                          *)
AddPlacedNoOverlap ==
    /\ pc = "no_overlap"
    /\ Register(PlacedNoOverlap, "utility")

(* Lines 128-135.                                                          *)
AddUtilityNoOverlap ==
    /\ pc = "utility"
    /\ Register(UtilityNoOverlap, "ratio")

(* Lines 137-139.                                                          *)
AddParkingRatio ==
    /\ pc = "ratio"
    /\ Register(ParkingRatioConstraint, "park_size")

(* Lines 141-144.                                                          *)
AddParkSize ==
    /\ pc = "park_size"
    /\ Register(ParkSizeConstraints, "objective")

(* Lines 146-149.  With the objective declared the model is complete, and *)
(* so is its optimum: the value the solver has to reach to answer OPTIMAL. *)
AddObjective ==
    /\ pc = "objective"
    /\ constraints' = constraints \cup YieldConstraint
    /\ objective' = "Maximize"
    /\ optimum' = BestObjective(cfg, constraints')
    /\ pc' = "solve"
    /\ UNCHANGED <<cfg, status, solution, warned, reads, printed, patches>>

Try(boxes, k, b) == Propagate(cfg, constraints, boxes, EntityOrder[k], b)
With(boxes, k, b) == boxes @@ (EntityOrder[k] :> b)

(* Lines 151-156: solver.Solve(model) under the time limit, and the        *)
(* warning printed for a status that is neither OPTIMAL nor FEASIBLE.      *)
(* The solver returns no assignment (UNKNOWN when the time ran out,        *)
(* INFEASIBLE when there is none), or a box for each of the eight          *)
(* entities in turn and values for the auxiliary variables that satisfy    *)
(* every constraint.                                                       *)
Solve ==
    /\ pc = "solve"
    /\ Len(EntityOrder) = 8
    /\ LET cands == Candidates(cfg)
       IN  \/ /\ status' \in StatusesWithout(optimum)
              /\ solution' = NoSolution
           \/ \E b1 \in {b \in cands : Try(<<>>, 1, b)} :
              LET x1 == With(<<>>, 1, b1) IN
              \E b2 \in {b \in cands : Try(x1, 2, b)} :
              LET x2 == With(x1, 2, b2) IN
              \E b3 \in {b \in cands : Try(x2, 3, b)} :
              LET x3 == With(x2, 3, b3) IN
              \E b4 \in {b \in cands : Try(x3, 4, b)} :
              LET x4 == With(x3, 4, b4) IN
              \E b5 \in {b \in cands : Try(x4, 5, b)} :
              LET x5 == With(x4, 5, b5) IN
              \E b6 \in {b \in cands : Try(x5, 6, b)} :
              LET x6 == With(x5, 6, b6) IN
              \E b7 \in {b \in cands : Try(x6, 7, b)} :
              LET x7 == With(x6, 7, b7) IN
              \E b8 \in {b \in cands : Try(x7, 8, b)} :
              \E asg \in Completions(cfg, constraints, With(x7, 8, b8)) :
                  /\ solution' = asg
                  /\ status' \in StatusesOf(asg, optimum)
    /\ warned' = (status' \notin Solved)
    /\ pc' = "print"
    /\ UNCHANGED <<cfg, constraints, objective, optimum, reads, printed,
                   patches>>

(* A value solver.Value returns when the solver holds no assignment: the   *)
(* call is undefined there, it raises or returns some value of the domain. *)
StaleValues(c) == {0, c.size_x * c.size_y}

(* Line 158: print(solver.Value(lot_yield)), whatever the status.          *)
PrintYield ==
    /\ pc = "print"
    /\ IF status \in Solved
       THEN /\ printed' = solution.lot_yield
            /\ reads' = reads \cup {LotYield}
            /\ pc' = "render"
       ELSE \/ /\ pc' = "error"
               /\ UNCHANGED <<printed, reads>>
            \/ /\ printed' \in StaleValues(cfg)
               /\ reads' = reads \cup {LotYield}
               /\ pc' = "render"
    /\ UNCHANGED <<cfg, constraints, objective, optimum, status, solution,
                   warned, patches>>

(* A Rectangle patch: its origin and its two sizes.                        *)
Patch(b) == <<b.X.Start, b.Y.Start, b.X.Size, b.Y.Size>>

(* Lines 160-217: one rectangle per entity from solver.Value of its start  *)
(* and size variables, then the two fixed zones, then plt.show().          *)
Render ==
    /\ pc = "render"
    /\ IF status \in Solved
       THEN /\ patches' = [e \in Entities |-> Patch(solution.box[e])]
            /\ reads' = reads \cup Entities
            /\ pc' = "done"
       ELSE \/ /\ pc' = "error"
               /\ UNCHANGED <<patches, reads>>
            \/ /\ \E b \in Candidates(cfg) :
                      patches' = [e \in Entities |-> Patch(b)]
               /\ reads' = reads \cup Entities
               /\ pc' = "done"
    /\ UNCHANGED <<cfg, constraints, objective, optimum, status, solution,
                   warned, printed>>

Next ==
    \/ BuildBuildings
    \/ BuildParkingLots
    \/ BuildPark
    \/ AddPlacedNoOverlap
    \/ AddUtilityNoOverlap
    \/ AddParkingRatio
    \/ AddParkSize
    \/ AddObjective
    \/ Solve
    \/ PrintYield
    \/ Render

Spec == Init /\ [][Next]_vars

SpecRelaxed == InitRelaxed /\ [][Next]_vars

----------------------------------------------------------------------------
(* Properties.                                                             *)

(* The solver holds an assignment: the model accepted it.                  *)
Accepted == status \in Solved

(* The script is past the call of solver.Solve.                            *)
AfterSolve == pc \in {"print", "render", "done", "error"}

(* C1: result extraction is gated by the solve status.  Once the script is *)
(* past line 158 with a status outside {OPTIMAL, FEASIBLE}, it has failed  *)
(* with an error, solver.Value has returned no value (neither the yield    *)
(* nor a coordinate) and no rectangle was rendered.                        *)
C1_ExtractionGated ==
    (pc \in {"render", "done", "error"} /\ ~Accepted) =>
        /\ pc = "error"
        /\ reads = {}
        /\ printed = NotPrinted
        /\ patches = NoPatches

(* C2: in every accepted assignment, any two distinct regions among the 5  *)
(* buildings, the 2 parking lots, the park and the flood zone are disjoint *)
(* on the X axis or disjoint on the Y axis.                                *)
C2_PlacedRegionsDisjoint ==
    Accepted =>
        \A p \in Entities \cup {Floodable} :
            \A q \in (Entities \cup {Floodable}) \ {p} :
                LET bp == BoxOf(cfg, solution.box, p)
                    bq == BoxOf(cfg, solution.box, q)
                IN  \/ bp.X.End <= bq.X.Start
                    \/ bq.X.End <= bp.X.Start
                    \/ bp.Y.End <= bq.Y.Start
                    \/ bq.Y.End <= bp.Y.Start

(* An accepted assignment of the reference script in which a building of   *)
(* positive area shares part of its X range with the flood zone and is     *)
(* kept apart from it on the Y axis only.                                  *)
C2_Witness ==
    /\ Accepted
    /\ cfg.name = "A"
    /\ \E b \in Buildings :
          LET bb == solution.box[b]
          IN  /\ bb.Area > 0
              /\ bb.X.Start < FLOODABLE_X_END
              /\ FLOODABLE_X_START < bb.X.End
              /\ bb.Y.End <= FLOODABLE_Y_START

(* C3: in every accepted assignment no building and not the park overlaps  *)
(* the utility pole rectangle, which the reference script puts at origin   *)
(* (40,30) with size 5x5.  That a parking lot may overlap it is the        *)
(* reachability of C3_Witness.                                             *)
C3_PoleKeptClear ==
    /\ cfg.name = "A" =>
          utility_interval(cfg) = Box(40, 5, 45, 30, 5, 35, 25)
    /\ Accepted =>
          \A e \in Buildings \cup {Park} :
              LET be == solution.box[e]
                  u == utility_interval(cfg)
              IN  \/ be.X.End <= u.X.Start
                  \/ u.X.End <= be.X.Start
                  \/ be.Y.End <= u.Y.Start
                  \/ u.Y.End <= be.Y.Start

(* An accepted assignment of the reference script in which a parking lot   *)
(* of positive area overlaps the pole rectangle on both axes.              *)
C3_Witness ==
    /\ Accepted
    /\ cfg.name = "A"
    /\ \E l \in ParkingLots :
          LET bl == solution.box[l]
              u == utility_interval(cfg)
          IN  /\ bl.Area > 0
              /\ bl.X.Start < u.X.End /\ u.X.Start < bl.X.End
              /\ bl.Y.Start < u.Y.End /\ u.Y.Start < bl.Y.End

(* C4: in every accepted assignment ten times the sum of the two parking   *)
(* areas is at least the sum of the five building areas, each area being   *)
(* size_X * size_Y of its rectangle.                                       *)
C4_ParkingRatio ==
    Accepted =>
        LET sz(e) == solution.box[e].X.Size * solution.box[e].Y.Size
        IN  /\ \A e \in Entities : solution.box[e].Area = sz(e)
            /\ 10 * (sz(<<"parking_lots", 0>>) + sz(<<"parking_lots", 1>>))
                 >= sz(<<"building", 0>>) + sz(<<"building", 1>>)
                    + sz(<<"building", 2>>) + sz(<<"building", 3>>)
                    + sz(<<"building", 4>>)

(* An accepted assignment with buildings of positive area whose parking    *)
(* lots total less than the buildings: the factor 10 is what accepts it.   *)
C4_Witness ==
    /\ Accepted
    /\ solution.lot_yield > 0
    /\ solution.box[<<"parking_lots", 0>>].Area
         + solution.box[<<"parking_lots", 1>>].Area < solution.lot_yield

(* C5: in every accepted assignment the park's area is at least the area   *)
(* of every building, and largest_building is exactly the maximum of the   *)
(* five building areas.                                                    *)
C5_ParkAtLeastLargest ==
    Accepted =>
        /\ \A b \in Buildings :
              solution.box[Park].Area >= solution.box[b].Area
        /\ \E b \in Buildings :
              solution.largest_building = solution.box[b].Area
        /\ \A b \in Buildings :
              solution.largest_building >= solution.box[b].Area

(* An accepted assignment whose buildings differ in area, the largest one  *)
(* as large as the park.                                                   *)
C5_Witness ==
    /\ Accepted
    /\ solution.largest_building > 0
    /\ \E b \in Buildings : solution.box[b].Area < solution.largest_building
    /\ solution.box[Park].Area = solution.largest_building

(* The model is complete: the objective has been declared.                 *)
ModelComplete == pc \in {"solve", "print", "render", "done", "error"}

(* C6: in every accepted assignment lot_yield is the sum of the five       *)
(* building areas; the objective is maximised, and when the status is      *)
(* OPTIMAL the assignment satisfies every constraint and no assignment     *)
(* that does has a greater yield: the reported yield is the model's        *)
(* optimum.                                                                *)
C6_YieldIsBuildingSum ==
    /\ ModelComplete => objective = "Maximize"
    /\ Accepted =>
          solution.lot_yield =
              solution.box[<<"building", 0>>].Area
              + solution.box[<<"building", 1>>].Area
              + solution.box[<<"building", 2>>].Area
              + solution.box[<<"building", 3>>].Area
              + solution.box[<<"building", 4>>].Area
    /\ status = "OPTIMAL" =>
          /\ Feasible(cfg, constraints, solution)
          /\ solution.lot_yield >= optimum

(* An OPTIMAL answer of the reference script with buildings of positive    *)
(* area, building 0 among them.                                            *)
C6_Witness ==
    /\ status = "OPTIMAL"
    /\ cfg.name = "A"
    /\ solution.box[<<"building", 0>>].Area > 0
    /\ solution.lot_yield > solution.box[<<"building", 0>>].Area

(* C7 as stated: in scenario B (lot 5x5, every building of positive area,  *)
(* the flood zone and the pole where they were) the model has no           *)
(* satisfying assignment, so the status is INFEASIBLE.                     *)
C7_ShrunkLotInfeasible ==
    (cfg.name = "B" /\ AfterSolve) => status = "INFEASIBLE"

(* C7 amended: in scenario B the model has satisfying assignments (the     *)
(* flood zone and the pole lie outside the 5x5 lot), so the status is      *)
(* never INFEASIBLE, and an accepted assignment keeps every rectangle in   *)
(* the lot and every building of positive area.                            *)
C7_ShrunkLotFeasible ==
    cfg.name = "B" =>
        /\ ModelComplete => optimum >= NUM_BUILDINGS
        /\ status # "INFEASIBLE"
        /\ Accepted =>
              /\ \A e \in Entities :
                    /\ solution.box[e].X.End <= 5
                    /\ solution.box[e].Y.End <= 5
              /\ \A b \in Buildings : solution.box[b].Area >= 1

(* Scenario B answered with an assignment: five buildings of positive      *)
(* area, a park and a parking lot of positive area, all in the 5x5 lot.    *)
C7_Witness ==
    /\ cfg.name = "B"
    /\ Accepted
    /\ \A b \in Buildings : solution.box[b].Area >= 1
    /\ solution.box[Park].Area >= 1
    /\ solution.box[<<"parking_lots", 0>>].Area >= 1
    /\ Feasible(cfg, constraints, solution)

(* C8: the pole is never asserted disjoint from the flood zone: no         *)
(* registered non-overlap constraint is over both.  In scenario C, where   *)
(* the pole rectangle covers the flood zone, the model still has a         *)
(* satisfying assignment: the status is never INFEASIBLE and an accepted   *)
(* assignment satisfies every registered constraint.                       *)
C8_PoleFloodUnconstrained ==
    /\ \A con \in constraints :
          con.kind = "NoOverlap2D" => ~({Floodable, Utility} \subseteq con.a)
    /\ cfg.name = "C" =>
          /\ utility_interval(cfg) = floodable_interval
          /\ ModelComplete => optimum # NoBound
          /\ status # "INFEASIBLE"
          /\ (Accepted /\ pc = "print") =>
                Feasible(cfg, constraints, solution)

(* Scenario C answered OPTIMAL, the pole lying on the flood zone.          *)
C8_Witness ==
    /\ cfg.name = "C"
    /\ status = "OPTIMAL"
    /\ BoxesOverlap(utility_interval(cfg), floodable_interval)
    /\ solution.lot_yield > 0

(* Rectangles of size zero on an axis (points and segments) to try in      *)
(* place of an entity's rectangle: inside the flood zone, inside the pole, *)
(* on a corner of the flood zone, across the lower middle of the lot, on   *)
(* the lot's origin and inside the 5x5 lot.                                *)
ZeroPlacements ==
    { << <<12, 25>>, <<0, 0>> >>, << <<12, 25>>, <<0, 3>> >>,
      << <<42, 32>>, <<0, 0>> >>, << <<41, 32>>, <<3, 0>> >>,
      << <<10, 20>>, <<0, 0>> >>, << <<25, 5>>, <<3, 0>> >>,
      << <<0, 0>>, <<0, 0>> >>, << <<3, 3>>, <<0, 0>> >> }

ZeroProbes(c) ==
    {z \in {MakeBox(pl[1], pl[2]) : pl \in ZeroPlacements} : entity_2d(c, z)}

(* The non-overlap constraints over entity e accept rectangle z in place   *)
(* of e's, the other rectangles staying where the assignment has them.     *)
ProbeAccepted(e, z) ==
    \A con \in constraints :
        (con.kind = "NoOverlap2D" /\ e \in con.a) =>
            NoOverlapAgainst(cfg, solution.box, z, con.a \ {e})

(* The regions a non-overlap constraint puts together with entity e.       *)
Partners(e) ==
    UNION {con.a \ {e} :
             con \in {k \in constraints : k.kind = "NoOverlap2D" /\ e \in k.a}}

(* On one axis, interval zi reaches the inside of interval qi: a point     *)
(* lies strictly between qi's ends, a segment shares more than an end.     *)
ReachesInside(zi, qi) ==
    IF zi.Size = 0
    THEN qi.Start < zi.Start /\ zi.Start < qi.End
    ELSE zi.Start < qi.End /\ qi.Start < zi.End

BuildingPerms ==
    {p \in [0..(NUM_BUILDINGS - 1) -> 0..(NUM_BUILDINGS - 1)] :
        \A i, j \in DOMAIN p : p[i] = p[j] => i = j}

ParkingPerms ==
    {p \in [0..(NUM_PARKING_LOTS - 1) -> 0..(NUM_PARKING_LOTS - 1)] :
        \A i, j \in DOMAIN p : p[i] = p[j] => i = j}

(* Assignment asg with building i given the rectangle of building pb[i]    *)
(* and parking lot i the rectangle of parking lot pp[i].                   *)
Renumbered(asg, pb, pp) ==
    [asg EXCEPT !.box =
        [e \in Entities |->
            IF e[1] = "building" THEN asg.box[<<"building", pb[e[2]]>>]
            ELSE IF e[1] = "parking_lots"
                 THEN asg.box[<<"parking_lots", pp[e[2]]>>]
                 ELSE asg.box[e]]]

(* Renumbering pb, pp puts the areas of asg in non-increasing order.       *)
SortsByArea(asg, pb, pp) ==
    /\ \A i \in 0..(NUM_BUILDINGS - 2) :
          asg.box[<<"building", pb[i]>>].Area
              >= asg.box[<<"building", pb[i + 1]>>].Area
    /\ \A i \in 0..(NUM_PARKING_LOTS - 2) :
          asg.box[<<"parking_lots", pp[i]>>].Area
              >= asg.box[<<"parking_lots", pp[i + 1]>>].Area

(* C10: the ordering constraints remove only renumberings.  Of the script  *)
(* without them: every accepted assignment can be renumbered, buildings    *)
(* among themselves and parking lots among themselves, into an assignment  *)
(* that satisfies every constraint of the script with them, at the same    *)
(* yield; and the maximum yield is the same with and without them.         *)
C10_OrderingRemovesOnlyRenumberings ==
    /\ \A con \in constraints : con.kind # "AreaAtLeast"
    /\ pc = "solve" =>
          optimum = BestObjective(Ordered(cfg), AllConstraints(Ordered(cfg)))
    /\ (Accepted /\ pc = "print") =>
          \E pp \in ParkingPerms : \E pb \in BuildingPerms :
              /\ SortsByArea(solution, pb, pp)
              /\ LET r == Renumbered(solution, pb, pp)
                 IN  /\ r.lot_yield = solution.lot_yield
                     /\ Feasible(Ordered(cfg), AllConstraints(Ordered(cfg)),
                                 r)

(* An assignment the script without the ordering constraints accepts and   *)
(* the ordering constraints refuse as numbered: building 0 smaller than    *)
(* building 4, parking lot 0 smaller than parking lot 1.                   *)
C10_Witness ==
    /\ Accepted
    /\ pc = "print"
    /\ ~cfg.symmetry_breaking
    /\ solution.box[<<"building", 0>>].Area
          < solution.box[<<"building", 4>>].Area
    /\ solution.box[<<"parking_lots", 0>>].Area
          < solution.box[<<"parking_lots", 1>>].Area
    /\ ~Feasible(Ordered(cfg), AllConstraints(Ordered(cfg)), solution)

====
